---- MODULE Spec2Model ----
(***************************************************************************)
(* A model of the memcached-like server of src/src/main.rs: the wire       *)
(* parser (Req::from, Common::from, Get::from), the response encoder       *)
(* (Resp::to_string, Value::to_string), the store() helper and the         *)
(* connection task of main().                                              *)
(*                                                                         *)
(* Strings are sequences of one-character strings, so that parsing and     *)
(* formatting are computed character by character as the code does.        *)
(***************************************************************************)
EXTENDS Integers, Sequences, FiniteSets, TLC

\* ------------------------------------------------------------------ bounds

\* The clock (Instant::now(), in seconds) runs from 0 to MaxTime.
MaxTime == 2

\* ------------------------------------------------------------- characters

SP == " "
CR == "\r"
LF == "\n"
CRLF == <<CR, LF>>

Digits == <<"0", "1", "2", "3", "4", "5", "6", "7", "8", "9">>

\* char::is_whitespace, restricted to the characters of the model
IsWhitespace(ch) == ch \in {SP, CR, LF, "\t"}

\* Result values of the parser: Ok(v), Err(msg), or a panic (unwrap on
\* None, index out of bounds, slice out of range).
Ok(v) == [tag |-> "Ok", val |-> v]
Err(msg) == [tag |-> "Err", msg |-> msg]
Panic == [tag |-> "Panic"]

None == [some |-> FALSE]
Some(v) == [some |-> TRUE, val |-> v]

\* ---------------------------------------------------------- str helpers

\* the index of the first occurrence of pat in s at or after i, 0 if none
RECURSIVE Find(_, _, _)
Find(s, pat, i) ==
    IF i + Len(pat) - 1 > Len(s) THEN 0
    ELSE IF SubSeq(s, i, i + Len(pat) - 1) = pat THEN i
    ELSE Find(s, pat, i + 1)

\* str::split_once(pat): None, or Some(<<before, after>>)
split_once(s, pat) ==
    LET i == Find(s, pat, 1) IN
    IF i = 0 THEN None
    ELSE Some(<<SubSeq(s, 1, i - 1), SubSeq(s, i + Len(pat), Len(s))>>)

\* str::split(pat).collect(): every piece between occurrences of pat, empty
\* pieces included; always at least one piece
RECURSIVE split(_, _)
split(s, pat) ==
    LET i == Find(s, pat, 1) IN
    IF i = 0 THEN <<s>>
    ELSE <<SubSeq(s, 1, i - 1)>> \o split(SubSeq(s, i + Len(pat), Len(s)), pat)

\* str::split_whitespace().collect(): the maximal runs of non-whitespace
RECURSIVE split_whitespace(_)
split_whitespace(s) ==
    IF s = <<>> THEN <<>>
    ELSE IF IsWhitespace(Head(s)) THEN split_whitespace(Tail(s))
    ELSE LET rest == split_whitespace(Tail(s)) IN
         IF Len(s) > 1 /\ ~IsWhitespace(s[2])
         THEN <<(<<Head(s)>> \o Head(rest))>> \o Tail(rest)
         ELSE <<(<<Head(s)>>)>> \o rest

IsDigit(ch) == \E d \in 1..10 : Digits[d] = ch
DigitVal(ch) == (CHOOSE d \in 1..10 : Digits[d] = ch) - 1

\* the value of a string of digits, most significant first; stops growing
\* above max so that the value stays representable
RECURSIVE DigitsVal(_, _, _)
DigitsVal(s, acc, max) ==
    IF s = <<>> THEN acc
    ELSE IF acc > max THEN acc
    ELSE DigitsVal(Tail(s), acc * 10 + DigitVal(Head(s)), max)

\* str::parse::<uN>() for an unsigned type whose largest value is max: an
\* optional '+', then one or more digits, the value at most max
parse_unsigned(s, max) ==
    LET body == IF s # <<>> /\ Head(s) = "+" THEN Tail(s) ELSE s IN
    IF body = <<>> \/ \E i \in 1..Len(body) : ~IsDigit(body[i])
    THEN Err(<<"ParseIntError">>)
    ELSE LET v == DigitsVal(body, 0, max) IN
         IF v > max THEN Err(<<"ParseIntError">>) ELSE Ok(v)

\* u16::MAX; u64 and usize are wider than any number the model writes
U16Max == 65535
WideMax == 999999

\* the decimal rendering of n, as format!("{}", n) writes it
RECURSIVE fmt_num(_)
fmt_num(n) ==
    IF n < 10 THEN <<Digits[n + 1]>>
    ELSE fmt_num(n \div 10) \o <<Digits[(n % 10) + 1]>>

\* ------------------------------------------------------------ wire parser

W_set == <<"s", "e", "t">>
W_get == <<"g", "e", "t">>
W_add == <<"a", "d", "d">>
W_replace == <<"r", "e", "p", "l", "a", "c", "e">>
W_append == <<"a", "p", "p", "e", "n", "d">>
W_prepend == <<"p", "r", "e", "p", "e", "n", "d">>
W_noreply == <<"n", "o", "r", "e", "p", "l", "y">>

\* struct Common
Common(name, key, flags, exptime, byte_count, no_reply, data_block) ==
    [name |-> name, key |-> key, flags |-> flags, exptime |-> exptime,
     byte_count |-> byte_count, no_reply |-> no_reply,
     data_block |-> data_block]

\* Common::from's tail with the data block not cut to byte_count
Common_from_block_unsliced(parts, flags, exptime, byte_count) ==
    IF Len(parts) < 6 THEN Panic
    ELSE LET sp == split_once(parts[6], CRLF) IN
         IF ~sp.some THEN Panic
         ELSE LET no_reply == sp.val[1] # <<>>
                  rest == sp.val[2]
              IN  IF byte_count > Len(rest) THEN Panic
                  ELSE Ok(Common(parts[1], parts[2], flags, exptime,
                                 byte_count, no_reply, rest))

\* Common::from, past the arity check and the three numeric parses: parts[5]
\* is indexed without a length check, split_once is unwrapped, and the data
\* block is sliced to byte_count without a length check
Common_from_block(parts, flags, exptime, byte_count) ==
    IF Len(parts) < 6 THEN Panic
    ELSE LET sp == split_once(parts[6], CRLF) IN
         IF ~sp.some THEN Panic
         ELSE LET no_reply == sp.val[1] # <<>>
                  rest == sp.val[2]
              IN  IF byte_count > Len(rest) THEN Panic
                  ELSE Ok(Common(parts[1], parts[2], flags, exptime,
                                 byte_count, no_reply,
                                 SubSeq(rest, 1, byte_count)))

\* Common::from
Common_from(data) ==
    LET parts == split(data, <<SP>>) IN
    IF Len(parts) < 5 THEN Err(<<"Invalid set format">>)
    ELSE LET flags == parse_unsigned(parts[3], U16Max) IN
         IF flags.tag = "Err" THEN flags
         ELSE LET exptime == parse_unsigned(parts[4], WideMax) IN
              IF exptime.tag = "Err" THEN exptime
              ELSE LET byte_count == parse_unsigned(parts[5], WideMax) IN
                   IF byte_count.tag = "Err" THEN byte_count
                   ELSE Common_from_block(parts, flags.val, exptime.val,
                                          byte_count.val)

\* Get::from
Get_from(data) ==
    LET parts == split_whitespace(data) IN
    IF Len(parts) < 2 THEN Panic
    ELSE Ok([name |-> parts[1], key |-> parts[2]])

\* wraps the result of a per-command parser in a variant of enum Req; the ?
\* operator passes an error on (a panic unwinds through it)
Variant(kind, r) ==
    IF r.tag = "Ok" THEN Ok([kind |-> kind, cmd |-> r.val]) ELSE r

\* Req::from
Req_from(data) ==
    LET sp == split_once(data, <<SP>>) IN
    IF ~sp.some THEN Panic
    ELSE LET name == sp.val[1] IN
         CASE name = W_set -> Variant("Set", Common_from(data))
           [] name = W_get -> Variant("Get", Get_from(data))
           [] name = W_add -> Variant("Add", Common_from(data))
           [] name = W_replace -> Variant("Replace", Common_from(data))
           [] OTHER -> Err(<<"Invalid command", name>>)

\* ------------------------------------------------------- response encoder

\* struct Value
Value(name, flags, byte_count, data_block) ==
    [name |-> name, flags |-> flags, byte_count |-> byte_count,
     data_block |-> data_block]

\* struct Entry; expires_at is an Option<Instant>
Entry(data, expires_at) == [data |-> data, expires_at |-> expires_at]

\* enum Resp
Stored == [kind |-> "Stored"]
NotStored == [kind |-> "NotStored"]
End == [kind |-> "End"]
RespValue(v) == [kind |-> "Value", value |-> v]

\* Value::to_string
Value_to_string(v) ==
    <<"V", "A", "L", "U", "E", SP>> \o v.name \o <<SP>> \o fmt_num(v.flags)
      \o <<SP>> \o fmt_num(v.byte_count) \o CRLF \o v.data_block \o CRLF

\* Resp::to_string
Resp_to_string(r) ==
    CASE r.kind = "Stored" -> <<"S", "T", "O", "R", "E", "D">> \o CRLF
      [] r.kind = "NotStored" ->
            <<"N", "O", "T", "_", "S", "T", "O", "R", "E", "D">> \o CRLF
      [] r.kind = "End" -> <<"E", "N", "D">> \o CRLF
      [] r.kind = "Value" -> Value_to_string(r.value)

\* ------------------------------------------------------------- the store

\* DashMap<String, Entry> as a function from the keys present to entries
EmptyMap == <<>>
contains_key(m, k) == k \in DOMAIN m
get(m, k) == IF k \in DOMAIN m THEN Some(m[k]) ELSE None
insert(m, k, e) == [x \in DOMAIN m \cup {k} |-> IF x = k THEN e ELSE m[x]]

\* DashMap::clone: a new map holding a copy of every entry, which shares
\* nothing with the map it was cloned from
clone(m) == m

\* is_expired with < for <=: an entry is still served in its last second
is_expired_strict(entry, t) ==
    entry.expires_at.some /\ entry.expires_at.val < t

\* entry.expires_at.is_some_and(|e| e <= Instant::now())
is_expired(entry, t) == entry.expires_at.some /\ entry.expires_at.val <= t

\* What executing a command gives: the map afterwards, the Option<Resp>, and
\* whether the task is stuck for ever in a map operation.
Done(m, resp) == [storage |-> m, resp |-> resp, blocked |-> FALSE]
Blocked(m) == [storage |-> m, resp |-> None, blocked |-> TRUE]

\* store that inserts only when a reply is due: noreply drops the write
store_reply_only(m, common, t) ==
    LET value == Value(common.key, common.flags, common.byte_count,
                       common.data_block)
        expires_at == IF common.exptime = 0 THEN None
                      ELSE Some(t + common.exptime)
        entry == Entry(value, expires_at)
    IN  Done(IF common.exptime > 0 /\ ~common.no_reply
             THEN insert(m, common.key, entry) ELSE m,
             IF ~common.no_reply THEN Some(Stored) ELSE None)

\* store with the expiration set to the store time, exptime not added
store_no_ttl(m, common, t) ==
    LET value == Value(common.key, common.flags, common.byte_count,
                       common.data_block)
        expires_at == IF common.exptime = 0 THEN None ELSE Some(t)
        entry == Entry(value, expires_at)
    IN  Done(IF common.exptime > 0 THEN insert(m, common.key, entry) ELSE m,
             IF ~common.no_reply THEN Some(Stored) ELSE None)

\* fn store, called at clock reading t
store(m, common, t) ==
    LET value == Value(common.key, common.flags, common.byte_count,
                       common.data_block)
        expires_at == IF common.exptime = 0 THEN None
                      ELSE Some(t + common.exptime)
        entry == Entry(value, expires_at)
    IN  Done(IF common.exptime > 0 THEN insert(m, common.key, entry) ELSE m,
             IF ~common.no_reply THEN Some(Stored) ELSE None)

\* fn store, called while the caller still holds the Ref that storage.get
\* returned for common.key: the insert waits for that read guard, which the
\* waiting task itself holds
store_holding_ref(m, common, t) ==
    IF common.exptime > 0 THEN Blocked(m) ELSE store(m, common, t)

\* the Get arm with no response on a miss
exec_get_silent_miss(m, cmd, t) ==
    LET entry == get(m, cmd.key) IN
    IF entry.some
    THEN IF is_expired(entry.val, t) THEN Blocked(m)
         ELSE Done(m, Some(RespValue(entry.val.data)))
    ELSE Done(m, None)

\* the Req::Get arm: storage.remove is called while `entry`, the Ref that
\* storage.get returned for the same key, is alive, so it never returns
exec_get(m, cmd, t) ==
    LET entry == get(m, cmd.key) IN
    IF entry.some
    THEN IF is_expired(entry.val, t) THEN Blocked(m)
         ELSE Done(m, Some(RespValue(entry.val.data)))
    ELSE Done(m, Some(End))

\* the Add arm without its test: add stores like set
exec_add_unconditional(m, common, t) == store(m, common, t)

\* the Req::Add arm
exec_add(m, common, t) ==
    IF ~get(m, common.key).some THEN store(m, common, t)
    ELSE Done(m, Some(NotStored))

\* the Replace arm without its test: replace stores like set
exec_replace_unconditional(m, common, t) == store(m, common, t)

\* the Req::Replace arm
exec_replace(m, common, t) ==
    IF contains_key(m, common.key) THEN store(m, common, t)
    ELSE Done(m, Some(NotStored))

\* the Req::Append arm
exec_append(m, common, t) ==
    LET entry == get(m, common.key) IN
    IF entry.some
    THEN store_holding_ref(m,
             [common EXCEPT !.data_block =
                  entry.val.data.data_block \o common.data_block], t)
    ELSE Done(m, Some(NotStored))

\* the Req::Prepend arm
exec_prepend(m, common, t) ==
    LET entry == get(m, common.key) IN
    IF entry.some
    THEN store_holding_ref(m,
             [common EXCEPT !.data_block =
                  common.data_block \o entry.val.data.data_block], t)
    ELSE Done(m, Some(NotStored))

\* let resp = match command { ... }
exec(m, req, t) ==
    CASE req.kind = "Set" -> store(m, req.cmd, t)
      [] req.kind = "Get" -> exec_get(m, req.cmd, t)
      [] req.kind = "Add" -> exec_add(m, req.cmd, t)
      [] req.kind = "Replace" -> exec_replace(m, req.cmd, t)
      [] req.kind = "Append" -> exec_append(m, req.cmd, t)
      [] req.kind = "Prepend" -> exec_prepend(m, req.cmd, t)

\* ----------------------------------------------------------------- inputs

Conns == {"A", "B"}
Keys == {<<"a">>, <<"b">>}
Payloads == {[flags |-> 0, data |-> <<"x">>],
             [flags |-> 5, data |-> <<"y", "z">>],
             [flags |-> 12, data |-> <<>>]}
Exptimes == {0, 2}
StoreNames == {W_set, W_add, W_replace, W_append, W_prepend}

\* a store-family request as the repository's tests write it (test_set,
\* test_noreply_set): a space after byte_count, then the optional noreply
TestRequest(name, key, flags, exptime, byte_count, noreply, block) ==
    name \o <<SP>> \o key \o <<SP>> \o fmt_num(flags) \o <<SP>>
      \o fmt_num(exptime) \o <<SP>> \o fmt_num(byte_count) \o <<SP>>
      \o (IF noreply THEN W_noreply ELSE <<>>) \o CRLF \o block \o CRLF

\* a fetch request (test_get)
GetRequest(key) == W_get \o <<SP>> \o key \o CRLF

\* the well-formed requests of the model that name a key of `keys`
RequestsOn(keys) ==
    {TestRequest(n, k, p.flags, e, Len(p.data), nr, p.data) :
        n \in StoreNames, k \in keys, p \in Payloads, e \in Exptimes,
        nr \in BOOLEAN}
    \cup {GetRequest(k) : k \in keys}

\* the other buffers a read can return: malformed ones (no space at all, no
\* key, an unknown name, too few arguments, flags that are no number, a data
\* block shorter than byte_count, no CRLF after the command line, flags over
\* u16), the protocol's form with no space before the CRLF, a data block
\* holding a space, and data blocks longer than or one byte shorter than
\* byte_count
OtherRequests ==
    { W_get \o CRLF,
      W_get \o <<SP>> \o CRLF,
      <<"b", "o", "g", "u", "s", SP, "a">> \o CRLF,
      W_set \o <<SP, "a", SP, "0">> \o CRLF,
      W_set \o <<SP, "a", SP, "x", SP, "0", SP, "1", SP>> \o CRLF
          \o <<"x">> \o CRLF,
      W_set \o <<SP, "a", SP, "0", SP, "2", SP, "1">> \o CRLF
          \o <<"x">> \o CRLF,
      W_set \o <<SP, "a", SP, "0", SP, "2", SP, "5", SP>> \o CRLF
          \o <<"x">> \o CRLF,
      W_set \o <<SP, "a", SP, "0", SP, "2", SP, "1", SP, "x">>,
      W_set \o <<SP, "a", SP, "0", SP, "2", SP, "1">>,
      TestRequest(W_set, <<"a">>, 65536, 2, 1, FALSE, <<"x">>),
      TestRequest(W_set, <<"a">>, 0, 2, 3, TRUE, <<"x", SP, "y">>),
      TestRequest(W_set, <<"a">>, 7, 2, 1, FALSE, <<"y", "z">>),
      TestRequest(W_set, <<"a">>, 7, 2, 2, FALSE, <<"x">>) }

Buffers == RequestsOn(Keys) \cup OtherRequests

\* the buffers the two-connection specification reads: one key only
OneKeyBuffers == RequestsOn({<<"a">>}) \cup OtherRequests

\* Req::from on every buffer of the model, computed once
Parsed == [data \in Buffers |-> Req_from(data)]

\* ------------------------------------------------------------------ state

VARIABLES
    storage,       \* the DashMap main() creates (line 136)
    task_storage,  \* per connection task: the `storage` it moved in (line 140)
    pc,            \* per connection: where its task is
    now,           \* the reading of Instant::now(), in seconds
    conn,          \* the connection whose task last handled a buffer
    command,       \* what Req::from returned for that buffer
    resp,          \* the Option<Resp> of that buffer
    written        \* the bytes write_all wrote for that buffer

vars == <<storage, task_storage, pc, now, conn, command, resp, written>>

Init ==
    /\ storage = EmptyMap
    /\ task_storage = [c \in Conns |-> EmptyMap]
    /\ pc = [c \in Conns |-> "unaccepted"]
    /\ now = 0
    /\ conn = "none"
    /\ command = Err(<<"none">>)
    /\ resp = None
    /\ written = <<>>

\* server.accept() returns a socket; storage.clone(); tokio::spawn
Accept(c) ==
    /\ pc[c] = "unaccepted"
    /\ pc' = [pc EXCEPT ![c] = "reading"]
    /\ task_storage' = [task_storage EXCEPT ![c] = clone(storage)]
    /\ UNCHANGED <<storage, now, conn, command, resp, written>>

\* reader.read returns Ok(0) or Err(_): the task returns and its map is
\* dropped
Close(c) ==
    /\ pc[c] = "reading"
    /\ pc' = [pc EXCEPT ![c] = "returned"]
    /\ task_storage' = [task_storage EXCEPT ![c] = EmptyMap]
    /\ UNCHANGED <<storage, now, conn, command, resp, written>>

\* the monotonic clock advances
Tick ==
    /\ now < MaxTime
    /\ now' = now + 1
    /\ UNCHANGED <<storage, task_storage, pc, conn, command, resp, written>>

\* One turn of the task's loop for a read of `data`: parse, execute, write.
\* A panic (in the parser, or of the unwrap on a failed write) ends the task
\* and drops its map; a parse error continues with the next read.
Serve(c, data, write_ok) ==
    /\ pc[c] = "reading"
    /\ conn' = c
    /\ command' = Parsed[data]
    /\ storage' = storage
    /\ now' = now
    /\ LET r == Parsed[data] IN
       CASE r.tag = "Panic" ->
              /\ pc' = [pc EXCEPT ![c] = "panicked"]
              /\ task_storage' = [task_storage EXCEPT ![c] = EmptyMap]
              /\ resp' = None
              /\ written' = <<>>
         [] r.tag = "Err" ->
              /\ resp' = None
              /\ written' = <<>>
              /\ UNCHANGED <<pc, task_storage>>
         [] r.tag = "Ok" ->
              LET out == exec(task_storage[c], r.val, now) IN
              /\ resp' = out.resp
              /\ IF out.blocked
                 THEN /\ pc' = [pc EXCEPT ![c] = "blocked"]
                      /\ task_storage' =
                            [task_storage EXCEPT ![c] = out.storage]
                      /\ written' = <<>>
                 ELSE IF out.resp.some /\ ~write_ok
                 THEN /\ pc' = [pc EXCEPT ![c] = "panicked"]
                      /\ task_storage' = [task_storage EXCEPT ![c] = EmptyMap]
                      /\ written' = <<>>
                 ELSE /\ pc' = pc
                      /\ task_storage' =
                            [task_storage EXCEPT ![c] = out.storage]
                      /\ written' = IF out.resp.some
                                    THEN Resp_to_string(out.resp.val)
                                    ELSE <<>>

\* one connection task, every buffer of the model
Next ==
    \/ \E c \in {"A"} : Accept(c)
    \/ \E c \in {"A"} : Close(c)
    \/ Tick
    \/ \E c \in {"A"}, data \in Buffers, write_ok \in BOOLEAN :
          Serve(c, data, write_ok)

Spec == Init /\ [][Next]_vars

\* two connection tasks, the buffers that name the key "a"
NextTwo ==
    \/ \E c \in Conns : Accept(c)
    \/ \E c \in Conns : Close(c)
    \/ Tick
    \/ \E c \in Conns, data \in OneKeyBuffers, write_ok \in BOOLEAN :
          Serve(c, data, write_ok)

SpecTwo == Init /\ [][NextTwo]_vars

\* ----------------------------------------------------- reading the steps

\* The step is a turn of c's loop: Accept and Close change pc to "reading"
\* or "returned", Tick changes now, and a turn of another task names it in
\* conn.
Handled(c) ==
    /\ now' = now
    /\ conn' = c
    /\ pc[c] = "reading"
    /\ pc'[c] # "returned"
    /\ \A d \in Conns \ {c} : pc'[d] = pc[d]

\* the step is a turn of c's loop for a buffer that parses as `data` does
HandledData(c, data) ==
    /\ Handled(c)
    /\ command'.tag = Parsed[data].tag
    /\ command' = Parsed[data]

\* the step is a turn of c's loop for a well-formed command of this variant
HandledKind(c, kind) ==
    Handled(c) /\ command'.tag = "Ok" /\ command'.val.kind = kind

\* the turn ran to its end: no panic, and the task is not stuck
Completed(c) == pc'[c] = "reading"

\* c's map holds an entry for k whose expiration has not passed at time t
Live(m, k, t) ==
    /\ k \in DOMAIN m
    /\ ~(m[k].expires_at.some /\ m[k].expires_at.val <= t)

\* the last buffer handled was a well-formed command of this variant, by c
LastKind(c, kind) ==
    conn = c /\ command.tag = "Ok" /\ command.val.kind = kind

\* ------------------------------------------------------------------ claims

\* C1: after a set with exptime = 0 executed on a connection, the next get
\* of the same key on that connection returns a VALUE with the flags and
\* data block that were set.
C1_SetGetRoundTrip ==
    [][\A c \in Conns :
        (/\ LastKind(c, "Set")
         /\ command.val.cmd.exptime = 0
         /\ HandledKind(c, "Get")
         /\ Completed(c)
         /\ command'.val.cmd.key = command.val.cmd.key)
        => /\ resp'.some
           /\ resp'.val.kind = "Value"
           /\ resp'.val.value.flags = command.val.cmd.flags
           /\ resp'.val.value.data_block = command.val.cmd.data_block]_vars

\* C2: after connection a's set of key k was answered STORED, and while a's
\* map holds that entry unexpired, a get of k on another connection b
\* returns the value a stored.
C2_SharedStore ==
    [][\A a \in Conns : \A b \in Conns \ {a} :
        (/\ LastKind(a, "Set")
         /\ resp = Some(Stored)
         /\ Live(task_storage[a], command.val.cmd.key, now)
         /\ HandledKind(b, "Get")
         /\ Completed(b)
         /\ command'.val.cmd.key = command.val.cmd.key)
        => /\ resp'.some
           /\ resp'.val.kind = "Value"
           /\ resp'.val.value.flags = command.val.cmd.flags
           /\ resp'.val.value.data_block = command.val.cmd.data_block]_vars

\* C3: after a set of key k that ran to its end, the entry of k holds that
\* command's flags, data block and expiration, whatever its exptime is.
C3_SetOverwrites ==
    [][\A c \in Conns :
        (HandledKind(c, "Set") /\ Completed(c))
        => LET cmd == command'.val.cmd IN
           get(task_storage'[c], cmd.key) =
               Some(Entry(Value(cmd.key, cmd.flags, cmd.byte_count,
                                cmd.data_block),
                          IF cmd.exptime = 0 THEN None
                          ELSE Some(now + cmd.exptime)))]_vars

\* C4: a get of a key whose entry has expired is answered END, and the
\* entry is removed from the map by that get.
C4_ExpiredGetEvicts ==
    [][\A c \in Conns :
        (/\ HandledKind(c, "Get")
         /\ command'.val.cmd.key \in DOMAIN task_storage[c]
         /\ ~Live(task_storage[c], command'.val.cmd.key, now))
        => /\ resp' = Some(End)
           /\ command'.val.cmd.key \notin DOMAIN task_storage'[c]]_vars

\* the step is a turn of c's loop that calls store(): a set, an add of a key
\* the map does not hold, or a replace of a key it holds
StoreCalled(c) ==
    /\ Handled(c)
    /\ command'.tag = "Ok"
    /\ \/ command'.val.kind = "Set"
       \/ /\ command'.val.kind = "Add"
          /\ command'.val.cmd.key \notin DOMAIN task_storage[c]
       \/ /\ command'.val.kind = "Replace"
          /\ command'.val.cmd.key \in DOMAIN task_storage[c]

\* C5: an entry stored with exptime > 0 expires at store time + exptime; a
\* get of its key before that time returns a VALUE with the entry's flags
\* and data block (the ones just set, when the get follows the set) and
\* leaves the map as it is; and an entry changes only when store() is
\* called for its key.
C5_RetrievableBeforeExpiry ==
    [][\A c \in Conns :
        /\ (StoreCalled(c) /\ Completed(c) /\ command'.val.cmd.exptime > 0)
           => LET cmd == command'.val.cmd IN
              get(task_storage'[c], cmd.key) =
                  Some(Entry(Value(cmd.key, cmd.flags, cmd.byte_count,
                                   cmd.data_block),
                             Some(now + cmd.exptime)))
        /\ \A k \in DOMAIN task_storage[c] :
              (/\ HandledKind(c, "Get")
               /\ command'.val.cmd.key = k
               /\ task_storage[c][k].expires_at.some
               /\ now < task_storage[c][k].expires_at.val)
              => /\ resp' = Some(RespValue(task_storage[c][k].data))
                 /\ Completed(c) =>
                       /\ task_storage'[c] = task_storage[c]
                       /\ written' = Value_to_string(task_storage[c][k].data)
        /\ (/\ LastKind(c, "Set")
            /\ command.val.cmd.exptime > 0
            /\ HandledKind(c, "Get")
            /\ command'.val.cmd.key = command.val.cmd.key
            /\ Live(task_storage[c], command.val.cmd.key, now))
           => /\ resp'.some
              /\ resp'.val.kind = "Value"
              /\ resp'.val.value.flags = command.val.cmd.flags
              /\ resp'.val.value.data_block = command.val.cmd.data_block
        /\ \A k \in DOMAIN task_storage[c] :
              (/\ pc'[c] \in {"reading", "blocked"}
               /\ ~(StoreCalled(c) /\ command'.val.cmd.key = k))
              => /\ k \in DOMAIN task_storage'[c]
                 /\ task_storage'[c][k] = task_storage[c][k]]_vars

\* a get was answered with the VALUE of an entry that expires in the next
\* second, so that time has passed since it was stored
C5_Witness ==
    \E c \in Conns :
        /\ LastKind(c, "Get")
        /\ pc[c] = "reading"
        /\ resp.some
        /\ resp.val.kind = "Value"
        /\ command.val.cmd.key \in DOMAIN task_storage[c]
        /\ task_storage[c][command.val.cmd.key].expires_at
              = Some(now + 1)
        /\ written = Value_to_string(resp.val.value)

\* C6: a get answered with a VALUE found the entry of that value in the
\* map, and the entry's expiration timestamp, if it has one, is after the
\* current time.
C6_NoExpiredValue ==
    [][\A c \in Conns :
        (HandledKind(c, "Get") /\ resp'.some /\ resp'.val.kind = "Value")
        => LET k == command'.val.cmd.key IN
           /\ k \in DOMAIN task_storage[c]
           /\ resp'.val.value = task_storage[c][k].data
           /\ ~(/\ task_storage[c][k].expires_at.some
                /\ task_storage[c][k].expires_at.val <= now)]_vars

\* a get found an entry that is in the map and has expired, and was not
\* answered with a VALUE
C6_Witness ==
    \E c \in Conns :
        /\ LastKind(c, "Get")
        /\ command.val.cmd.key \in DOMAIN task_storage[c]
        /\ task_storage[c][command.val.cmd.key].expires_at.some
        /\ task_storage[c][command.val.cmd.key].expires_at.val <= now
        /\ pc[c] = "blocked"
        /\ ~(resp.some /\ resp.val.kind = "Value")

\* C7: an add without noreply of a key whose entry is in the map and
\* unexpired is answered NOT_STORED and leaves the map as it is; a get of
\* the key that follows it returns the value the map held.
C7_AddPresentNotStored ==
    [][\A c \in Conns :
        /\ (/\ HandledKind(c, "Add")
            /\ ~command'.val.cmd.no_reply
            /\ Live(task_storage[c], command'.val.cmd.key, now))
           => /\ resp' = Some(NotStored)
              /\ Completed(c) =>
                    /\ task_storage'[c] = task_storage[c]
                    /\ written' = Resp_to_string(NotStored)
        /\ (/\ LastKind(c, "Add")
            /\ ~command.val.cmd.no_reply
            /\ resp = Some(NotStored)
            /\ HandledKind(c, "Get")
            /\ command'.val.cmd.key = command.val.cmd.key
            /\ Live(task_storage[c], command.val.cmd.key, now))
           => resp' = Some(RespValue(
                  task_storage[c][command.val.cmd.key].data))]_vars

\* an add without noreply was answered NOT_STORED for a key the map holds
\* unexpired, under another value than the add's
C7_Witness ==
    \E c \in Conns :
        /\ LastKind(c, "Add")
        /\ ~command.val.cmd.no_reply
        /\ resp = Some(NotStored)
        /\ pc[c] = "reading"
        /\ Live(task_storage[c], command.val.cmd.key, now)
        /\ task_storage[c][command.val.cmd.key].data.data_block
              # command.val.cmd.data_block

\* C8: a replace without noreply of a key the map does not hold is answered
\* NOT_STORED and leaves the map as it is, the key still absent; a get of
\* the key that follows it is answered END.
C8_ReplaceAbsentNotStored ==
    [][\A c \in Conns :
        /\ (/\ HandledKind(c, "Replace")
            /\ ~command'.val.cmd.no_reply
            /\ command'.val.cmd.key \notin DOMAIN task_storage[c])
           => /\ resp' = Some(NotStored)
              /\ Completed(c) =>
                    /\ task_storage'[c] = task_storage[c]
                    /\ command'.val.cmd.key \notin DOMAIN task_storage'[c]
                    /\ written' = Resp_to_string(NotStored)
        /\ (/\ LastKind(c, "Replace")
            /\ ~command.val.cmd.no_reply
            /\ resp = Some(NotStored)
            /\ HandledKind(c, "Get")
            /\ command'.val.cmd.key = command.val.cmd.key)
           => resp' = Some(End)]_vars

\* a replace without noreply was answered NOT_STORED for a key the map
\* does not hold, while it holds another key
C8_Witness ==
    \E c \in Conns :
        /\ LastKind(c, "Replace")
        /\ ~command.val.cmd.no_reply
        /\ resp = Some(NotStored)
        /\ pc[c] = "reading"
        /\ command.val.cmd.key \notin DOMAIN task_storage[c]
        /\ DOMAIN task_storage[c] # {}

\* the well-formed append and prepend requests without noreply
ConcatRequest(name, k, p, e) ==
    TestRequest(name, k, p.flags, e, Len(p.data), FALSE, p.data)

\* C9: an append (a prepend) without noreply of a key whose entry is in
\* the map and unexpired is answered STORED, and afterwards the key's data
\* block is the existing bytes followed by the new bytes (the new bytes
\* followed by the existing bytes).
C9_AppendPrepend ==
    [][\A c \in Conns, k \in Keys, p \in Payloads, e \in Exptimes :
        /\ (/\ HandledData(c, ConcatRequest(W_append, k, p, e))
            /\ Completed(c)
            /\ Live(task_storage[c], k, now))
           => /\ resp' = Some(Stored)
              /\ k \in DOMAIN task_storage'[c]
              /\ task_storage'[c][k].data.data_block
                    = task_storage[c][k].data.data_block \o p.data
        /\ (/\ HandledData(c, ConcatRequest(W_prepend, k, p, e))
            /\ Completed(c)
            /\ Live(task_storage[c], k, now))
           => /\ resp' = Some(Stored)
              /\ k \in DOMAIN task_storage'[c]
              /\ task_storage'[c][k].data.data_block
                    = p.data \o task_storage[c][k].data.data_block]_vars

\* the well-formed store-family requests that carry noreply
NoReplyRequests ==
    {TestRequest(n, k, p.flags, e, Len(p.data), TRUE, p.data) :
        n \in StoreNames, k \in Keys, p \in Payloads, e \in Exptimes}

\* C10: a turn of the loop for a store-family request that carries noreply
\* writes no bytes.
C10_NoReplyWritesNothing ==
    [][\A c \in Conns, data \in NoReplyRequests :
        HandledData(c, data) => written' = <<>>]_vars

\* the map a turn of the loop that runs to its end leaves, for a read of
\* `data` with the map m at time t
MapAfter(m, data, t) ==
    LET r == Parsed[data] IN
    IF r.tag = "Ok" THEN exec(m, r.val, t).storage ELSE m

\* each well-formed store-family request paired with the same request with
\* the noreply token added or taken away
NoReplyTwins ==
    {<<TestRequest(n, k, p.flags, e, Len(p.data), nr, p.data),
       TestRequest(n, k, p.flags, e, Len(p.data), ~nr, p.data)>> :
        n \in StoreNames, k \in Keys, p \in Payloads, e \in Exptimes,
        nr \in BOOLEAN}

\* what Req::from returns for those requests and, for each such result, the
\* requests paired with the requests it is returned for
NoReplyParses == {Parsed[tw[1]] : tw \in NoReplyTwins}

TwinsOf ==
    [r \in NoReplyParses |->
        {tw[2] : tw \in {x \in NoReplyTwins : Parsed[x[1]] = r}}]

\* C11: a turn of the loop for a store-family request that runs to its end
\* leaves the map that the same request with noreply added (or taken away)
\* would leave from the same state.
C11_NoReplySameStore ==
    [][\A c \in Conns :
        (Handled(c) /\ Completed(c) /\ command' \in NoReplyParses)
        => \A twin \in TwinsOf[command'] :
              task_storage'[c] = MapAfter(task_storage[c], twin, now)]_vars

\* a set with noreply got no response and its entry is in the map
C11_Witness ==
    \E c \in Conns :
        /\ LastKind(c, "Set")
        /\ command.val.cmd.no_reply
        /\ pc[c] = "reading"
        /\ resp = None
        /\ written = <<>>
        /\ command.val.cmd.key \in DOMAIN task_storage[c]
        /\ task_storage[c][command.val.cmd.key]
              = Entry(Value(command.val.cmd.key, command.val.cmd.flags,
                            command.val.cmd.byte_count,
                            command.val.cmd.data_block),
                      Some(now + command.val.cmd.exptime))

\* C12: a get of a key the map does not hold is answered END, END\r\n is
\* what is written, and the map is left as it is.
C12_GetMissEnd ==
    [][\A c \in Conns :
        (/\ HandledKind(c, "Get")
         /\ command'.val.cmd.key \notin DOMAIN task_storage[c])
        => /\ resp' = Some(End)
           /\ Completed(c) =>
                 /\ written' = <<"E", "N", "D", CR, LF>>
                 /\ task_storage'[c] = task_storage[c]]_vars

\* a get of a key the map does not hold was answered END while the map
\* holds another key
C12_Witness ==
    \E c \in Conns :
        /\ LastKind(c, "Get")
        /\ pc[c] = "reading"
        /\ resp = Some(End)
        /\ written = <<"E", "N", "D", CR, LF>>
        /\ command.val.cmd.key \notin DOMAIN task_storage[c]
        /\ DOMAIN task_storage[c] # {}

\* malformed buffers, one or more for each way of being malformed: an unknown
\* command name, too few arguments (for get and for set), flags that are no
\* number and flags over u16, no CRLF after the command line (with and
\* without bytes after byte_count), a data block shorter than byte_count
MalformedRequests ==
    { <<"b", "o", "g", "u", "s", SP, "a">> \o CRLF,
      W_get \o CRLF,
      W_set \o <<SP, "a", SP, "0">> \o CRLF,
      W_set \o <<SP, "a", SP, "x", SP, "0", SP, "1", SP>> \o CRLF
          \o <<"x">> \o CRLF,
      TestRequest(W_set, <<"a">>, 65536, 2, 1, FALSE, <<"x">>),
      W_set \o <<SP, "a", SP, "0", SP, "2", SP, "1", SP, "x">>,
      W_set \o <<SP, "a", SP, "0", SP, "2", SP, "1">>,
      W_set \o <<SP, "a", SP, "0", SP, "2", SP, "5", SP>> \o CRLF
          \o <<"x">> \o CRLF }

\* C13: a turn of the loop that reads a malformed buffer gets a parse error
\* from Req::from, sends no response, leaves the map as it is, and the task
\* is back at its read.
C13_MalformedIsParseError ==
    [][\A c \in Conns : \A data \in MalformedRequests :
        HandledData(c, data)
        => /\ command'.tag = "Err"
           /\ resp' = None
           /\ written' = <<>>
           /\ task_storage'[c] = task_storage[c]
           /\ pc'[c] = "reading"]_vars

\* the variant of enum Req (lines 8-15) that carries a command name
VariantOf(name) ==
    CASE name = W_set -> "Set"
      [] name = W_add -> "Add"
      [] name = W_replace -> "Replace"
      [] name = W_append -> "Append"
      [] name = W_prepend -> "Prepend"
      [] name = W_get -> "Get"

\* well-formed requests of the six commands, each with the variant Req::from
\* is to return for it: the per-command parser's result under the name's
\* variant
DispatchCases ==
    {<<TestRequest(n, k, p.flags, e, Len(p.data), nr, p.data),
       Variant(VariantOf(n),
               Common_from(TestRequest(n, k, p.flags, e, Len(p.data), nr,
                                       p.data)))>> :
        n \in StoreNames, k \in Keys, p \in Payloads, e \in Exptimes,
        nr \in BOOLEAN}
    \cup {<<GetRequest(k), Variant("Get", Get_from(GetRequest(k)))>> :
            k \in Keys}

\* C14: Req::from returns, for a well-formed request of each of the six
\* commands, the variant of that name holding what the per-command parser
\* returns, and a parse error for any other first token.
C14_DispatchOnName ==
    [][\A c \in Conns :
        /\ \A dc \in DispatchCases :
              HandledData(c, dc[1])
              => (command'.tag = dc[2].tag /\ command' = dc[2])
        /\ HandledData(c, <<"b", "o", "g", "u", "s", SP, "a">> \o CRLF)
           => command'.tag = "Err"]_vars

\* the protocol's form of a store-family request: no space between
\* byte_count and the CRLF when there is no noreply token
ProtocolRequest(name, key, flags, exptime, byte_count, noreply, block) ==
    name \o <<SP>> \o key \o <<SP>> \o fmt_num(flags) \o <<SP>>
         \o fmt_num(exptime) \o <<SP>> \o fmt_num(byte_count)
         \o (IF noreply THEN <<SP>> \o W_noreply ELSE <<>>)
         \o CRLF \o block \o CRLF

\* well-formed store-family requests, each with the command its tokens and
\* its data block spell out: the tests' form of the model's requests, the
\* protocol's form, and a data block that holds a space
WellFormedStores ==
    {<<TestRequest(n, k, p.flags, e, Len(p.data), nr, p.data),
       Common(n, k, p.flags, e, Len(p.data), nr, p.data)>> :
        n \in {W_set, W_add, W_replace}, k \in Keys, p \in Payloads,
        e \in Exptimes, nr \in BOOLEAN}
    \cup {<<ProtocolRequest(W_set, <<"a">>, 0, 2, 1, FALSE, <<"x">>),
            Common(W_set, <<"a">>, 0, 2, 1, FALSE, <<"x">>)>>,
          <<ProtocolRequest(W_set, <<"a">>, 0, 2, 3, TRUE, <<"x", SP, "y">>),
            Common(W_set, <<"a">>, 0, 2, 3, TRUE, <<"x", SP, "y">>)>>}

\* C15: for a well-formed store-family request Common::from returns the
\* command with the request's name, key, flags, exptime and byte_count,
\* no_reply true exactly when the noreply token is there, and the data
\* block's bytes, whatever they are.
C15_CommonFromFields ==
    [][\A c \in Conns : \A wf \in WellFormedStores :
        HandledData(c, wf[1])
        => /\ command'.tag = "Ok"
           /\ command'.val.cmd = wf[2]]_vars

\* the key is in the map with an expiration that has passed
ExpiredIn(m, k, t) == k \in DOMAIN m /\ is_expired(m[k], t)

\* the append and prepend requests of the model, each with its key
ConcatOnKey ==
    {<<ConcatRequest(n, k, p, e), k>> :
        n \in {W_append, W_prepend}, k \in Keys, p \in Payloads,
        e \in Exptimes}

\* C16: on a key whose entry has expired but is still in the map, an add
\* that asks for a reply and gives an exptime is answered STORED and writes
\* its entry; a replace, an append and a prepend are answered NOT_STORED and
\* leave the map as it is.
C16_ExpiredIsAbsent ==
    [][\A c \in Conns :
        /\ (/\ HandledKind(c, "Add")
            /\ ExpiredIn(task_storage[c], command'.val.cmd.key, now)
            /\ ~command'.val.cmd.no_reply
            /\ command'.val.cmd.exptime > 0)
           => /\ resp' = Some(Stored)
              /\ Completed(c) =>
                    task_storage'[c][command'.val.cmd.key].data.data_block
                        = command'.val.cmd.data_block
        /\ (/\ HandledKind(c, "Replace")
            /\ ExpiredIn(task_storage[c], command'.val.cmd.key, now))
           => /\ resp' = Some(NotStored)
              /\ Completed(c) => task_storage'[c] = task_storage[c]
        /\ \A cc \in ConcatOnKey :
              (/\ ExpiredIn(task_storage[c], cc[2], now)
               /\ HandledData(c, cc[1]))
              => /\ resp' = Some(NotStored)
                 /\ Completed(c) => task_storage'[c] = task_storage[c]]_vars

\* C17: no task is ever stuck for good inside a turn of its loop, waiting
\* for a lock of the map that its own turn holds.
C17_NeverBlocked == \A c \in Conns : pc[c] # "blocked"

\* the append and prepend requests of the model, each with its name, its key
\* and its data block
ConcatCases ==
    {[data |-> ConcatRequest(n, k, p, e), name |-> n, key |-> k,
      block |-> p.data] :
        n \in {W_append, W_prepend}, k \in Keys, p \in Payloads,
        e \in Exptimes}

C19_EntriesConsistent ==
    \A m \in {storage} \cup {task_storage[c] : c \in Conns} :
        \A k \in DOMAIN m :
            /\ m[k].data.byte_count = Len(m[k].data.data_block)
            /\ m[k].data.name = k

\* a set whose byte_count is 1 and whose data block is yz has stored the
\* one byte y
C19_Witness ==
    \E c \in Conns :
        /\ LastKind(c, "Set")
        /\ pc[c] = "reading"
        /\ <<"a">> \in DOMAIN task_storage[c]
        /\ task_storage[c][<<"a">>].data = Value(<<"a">>, 7, 1, <<"y">>)

\* C20: a task leaves its loop only when its read returns zero bytes or
\* fails, or when the write of a response that was due fails; leaving
\* changes neither the position nor the map of any other task.
C20_RunsUntilIoEnds ==
    [][\A c \in Conns :
        (pc[c] = "reading" /\ pc'[c] # "reading")
        => /\ \/ pc'[c] = "returned"
              \/ /\ pc'[c] = "panicked"
                 /\ conn' = c
                 /\ command'.tag = "Ok"
                 /\ resp'.some
           /\ \A d \in Conns \ {c} :
                 /\ pc'[d] = pc[d]
                 /\ task_storage'[d] = task_storage[d]]_vars

====
